---- MODULE Spec2Model ----
(***************************************************************************)
(* A model of the Ouroboros proof-of-stake engine of                       *)
(* ethcore/src/engines/ouroboros: the per-slot state machine (step,        *)
(* PVSS stage, proposed flag), sealing, seal verification, and the         *)
(* Follow-the-Satoshi leader election the engine is constructed with.      *)
(***************************************************************************)
EXTENDS Integers, Sequences, FiniteSets, TLC

(***************************************************************************)
(* Bounds of the model.                                                    *)
(***************************************************************************)
MaxK == 1
NumValidators == 2
MaxCoin == 1
NumSeeds == 2
MaxEpochs == 2
MaxStepCalls == 7
MaxSealAhead == 2
MaxVerifyCalls == 1
MaxConcStep == 2
NumMiners == 2
MaxFtsSlots == 3
MaxPublished == 2
MaxKeys == 4
MaxNow == 5
MaxStart == 2
MaxDuration == 2
\* The number of values of a usize, scaled from 2^64 to 2^8: the two leave the
\* same remainder modulo 10k for every k used here (both are 16 modulo 60).
UsizeModulus == 256
MaxGas == 5
MaxDivisor == 3

(***************************************************************************)
(* Program constants.                                                      *)
(***************************************************************************)
ZeroAddress == 0
SealFields == 2
EpochSlotsPerK == 10
SlotSecurityPerK == 2
RevealAfterPerK == 4
HackCommitment == 3
HackEpoch == 42
UnsetCommitment == 0
ParentGasLimit == 4
GasLimitBoundDivisor == 2

Validators == 1..NumValidators
Addresses == {ZeroAddress} \cup Validators
NoAccount == 0 - 1

PvssStages == {"Commit", "CommitBroadcast", "Reveal"}

(***************************************************************************)
(* Follow-the-Satoshi (fts.rs).                                            *)
(***************************************************************************)

\* The i-th sample (i from 0) the seeded generator draws from [0, t).  The
\* generator is an external stream cipher; it is modelled as a fixed
\* deterministic function of the seed and the draw index.
\* A variant that draws from [0, t], the upper end included.
IndependentSampleInclusive(seed, i, t) ==
    ((seed + 1) * (i + 1) * 7 + seed * (i + 2)) % (t + 1)

IndependentSample(seed, i, t) == ((seed + 1) * (i + 1) * 7 + seed * (i + 2)) % t

\* Vec::sort_by_key on pairs, by component k: a stable sort.
RECURSIVE SortByKey(_, _)
InsertByKey(sorted, x, k) ==
    LET le == {j \in 1..Len(sorted) : sorted[j][k] <= x[k]}
        p == IF le = {} THEN 0 ELSE CHOOSE j \in le : \A i \in le : i <= j
    IN SubSeq(sorted, 1, p) \o <<x>> \o SubSeq(sorted, p + 1, Len(sorted))
SortByKey(s, k) ==
    IF s = <<>> THEN <<>>
    ELSE InsertByKey(SortByKey(SubSeq(s, 1, Len(s) - 1), k), s[Len(s)], k)

RECURSIVE SumCoins(_)
SumCoins(balances) ==
    IF balances = <<>> THEN 0 ELSE balances[1][2] + SumCoins(Tail(balances))

\* A variant of the walk that takes a sample equal to the cumulative stake.
RECURSIVE FtsWalkInclusive(_, _, _, _, _, _)
FtsWalkInclusive(balances, ci, j, max_coins, p, out) ==
    IF j > Len(balances) THEN out
    ELSE LET max2 == max_coins + balances[j][2]
             stop == {q \in p..Len(ci) : ~(ci[q][2] <= max2)}
             q2 == IF stop = {} THEN Len(ci) + 1
                   ELSE CHOOSE q \in stop : \A r \in stop : q <= r
             taken == [q \in 1..(q2 - p) |-> <<ci[p + q - 1][1], balances[j][1]>>]
         IN FtsWalkInclusive(balances, ci, j + 1, max2, q2, out \o taken)

\* The walk of fts.rs:49-64 over the stakeholders, from stakeholder j on, with
\* the cumulative stake max_coins and the position p of the peeked sample.
RECURSIVE FtsWalk(_, _, _, _, _, _)
FtsWalk(balances, ci, j, max_coins, p, out) ==
    IF j > Len(balances) THEN out
    ELSE LET max2 == max_coins + balances[j][2]
             stop == {q \in p..Len(ci) : ~(ci[q][2] < max2)}
             q2 == IF stop = {} THEN Len(ci) + 1
                   ELSE CHOOSE q \in stop : \A r \in stop : q <= r
             taken == [q \in 1..(q2 - p) |-> <<ci[p + q - 1][1], balances[j][1]>>]
         IN FtsWalk(balances, ci, j + 1, max2, q2, out \o taken)

\* A variant that leaves out the sort by slot of line 65: the leaders come in
\* the order of the samples.
follow_the_satoshi_by_sample(seed, genesis_balances, epoch_slots, total_coins) ==
    IF total_coins = 0 THEN "panic"
    ELSE LET coin_indices ==
                 SortByKey([i \in 1..epoch_slots |->
                               <<i - 1, IndependentSample(seed, i - 1, total_coins)>>], 2)
             slot_leaders0 == FtsWalk(genesis_balances, coin_indices, 1, 0, 1, <<>>)
         IN [i \in 1..Len(slot_leaders0) |-> slot_leaders0[i][2]]

\* follow_the_satoshi: the slot leaders, or "panic" when the assertion on
\* total_coins fails.
follow_the_satoshi(seed, genesis_balances, epoch_slots, total_coins) ==
    IF total_coins = 0 THEN "panic"
    ELSE LET coin_indices ==
                 SortByKey([i \in 1..epoch_slots |->
                               <<i - 1, IndependentSample(seed, i - 1, total_coins)>>], 2)
             slot_leaders0 == FtsWalk(genesis_balances, coin_indices, 1, 0, 1, <<>>)
             sorted == SortByKey(slot_leaders0, 1)
         IN [i \in 1..Len(sorted) |-> sorted[i][2]]

\* GENESIS_SEED (fts.rs:13), as bytes.
GENESIS_SEED ==
    <<118, 97, 115, 97, 32, 111, 112, 97, 115, 97, 32, 115, 107, 111, 118, 111,
      114, 111, 100, 97, 32, 71, 103, 117, 114, 100, 97, 32, 98, 111, 114, 111,
      100, 97, 32, 112, 114, 111, 118, 111, 100, 97>>

KeyBytes == 32
WordBytes == 4
KeyWords == KeyBytes \div WordBytes

\* What the cast of a byte pointer to a pointer to u32 (fts.rs:81-86) reads
\* on the build: the bytes of each word in little-endian or in big-endian
\* order, or a fault on a misaligned address.
UnalignedReads == {"little_endian", "big_endian", "fault"}

\* The u32 read at the bytes b (four of them) in the given order.
WordOf(b, read) ==
    IF read = "little_endian"
    THEN b[1] + 256 * b[2] + 65536 * b[3] + 16777216 * b[4]
    ELSE b[4] + 256 * b[3] + 65536 * b[2] + 16777216 * b[1]

\* as_u32_seed: the first 32 bytes as eight words; the assertion of line 78
\* fails on fewer bytes.
as_u32_seed(u8s, read) ==
    IF Len(u8s) < KeyBytes THEN [kind |-> "panic", words |-> <<>>]
    ELSE IF read = "fault" THEN [kind |-> "fault", words |-> <<>>]
    ELSE [kind |-> "ok",
          words |-> [w \in 1..KeyWords |->
                        WordOf(SubSeq(u8s, WordBytes * (w - 1) + 1, WordBytes * w), read)]]

\* The stream of ChaChaRng::from_seed(words): one of StreamKeys streams,
\* a function of the eight words.
StreamKeys == 251
RECURSIVE MixWords(_, _)
MixWords(words, w) ==
    IF w > Len(words) THEN 0
    ELSE ((words[w] % StreamKeys) * w + MixWords(words, w + 1)) % StreamKeys
from_seed(words) == MixWords(words, 1)

\* Lines 28-31: the seed given, or GENESIS_SEED.
NoSeed == [some |-> FALSE, bytes |-> <<>>]
SomeSeed(bytes) == [some |-> TRUE, bytes |-> bytes]
seed_bytes(seed) == IF seed.some THEN seed.bytes ELSE GENESIS_SEED

\* follow_the_satoshi from the seed bytes on: what the call returns, or how
\* it ends.
FtsResult(seed, read, genesis_balances, n, total_coins) ==
    LET key == as_u32_seed(seed_bytes(seed), read)
    IN IF key.kind # "ok" THEN [kind |-> key.kind, schedule |-> <<>>]
       ELSE IF total_coins = 0 THEN [kind |-> "panic", schedule |-> <<>>]
       ELSE [kind |-> "ok",
             schedule |-> follow_the_satoshi(from_seed(key.words), genesis_balances,
                                             n, total_coins)]

(***************************************************************************)
(* Construction (Ouroboros::new).                                          *)
(***************************************************************************)

\* Ouroboros::stakeholders: the validators that have an account in the
\* genesis state, with their balance.
RECURSIVE StakeholdersFrom(_, _)
StakeholdersFrom(accounts, v) ==
    IF v > NumValidators THEN <<>>
    ELSE (IF accounts[v] = NoAccount THEN <<>> ELSE << <<v, accounts[v]>> >>)
         \o StakeholdersFrom(accounts, v + 1)

stakeholders(accounts) == SortByKey(StakeholdersFrom(accounts, 1), 1)

GenesisAccounts ==
    {a \in [Validators -> {NoAccount} \cup (0..MaxCoin)] :
        SumCoins(stakeholders(a)) > 0}

EpochSlots(k) == EpochSlotsPerK * k

\* A variant that takes the stake of the first stakeholder for the total.
total_stake_of_first(balances) == IF balances = <<>> THEN 0 ELSE balances[1][2]
\* total_stake (mod.rs:211-213): the fold of the amounts from Coin 0.
total_stake(balances) == SumCoins(balances)

InitialSlotLeaders(accounts, seed, k) ==
    follow_the_satoshi(seed, stakeholders(accounts), EpochSlots(k),
                       total_stake(stakeholders(accounts)))

\* The validator lists of a spec: the validators in any order.
ValidatorLists ==
    {list \in [Validators -> Validators] : \A v, w \in Validators : list[v] = list[w] => v = w}

\* Ouroboros::stakeholders over a validator list, in the order of the list.
RECURSIVE StakesOfList(_, _, _)
StakesOfList(list, accounts, i) ==
    IF i > Len(list) THEN <<>>
    ELSE (IF accounts[list[i]] = NoAccount THEN <<>>
          ELSE << <<list[i], accounts[list[i]]>> >>)
         \o StakesOfList(list, accounts, i + 1)

\* The call of follow_the_satoshi Ouroboros::new makes (mod.rs:204-241): the
\* stakeholders sorted by id, the epoch slots, the total stake; no seed.
ConstructorFtsCall(list, accounts, k) ==
    LET sorted == SortByKey(StakesOfList(list, accounts, 1), 1)
    IN [balances |-> sorted, epoch_slots |-> EpochSlots(k),
        total_coins |-> total_stake(sorted)]

(***************************************************************************)
(* Headers, seals and signatures.                                          *)
(***************************************************************************)

\* A header without its seal; bare_hash is taken to be collision free, so
\* the hash is identified with the content it is computed from.
bare_hash(header) ==
    [author |-> header.author, number |-> header.number, gas_limit |-> header.gas_limit]

\* An RLP-encoded seal field: an integer (rlp::encode(&step)), a 65-byte
\* string (a signature, valid or not), or any other item.
IntField(n) == [tag |-> "int", val |-> n, signer |-> ZeroAddress, hash |-> <<>>]
SigField(a, h) == [tag |-> "sig", val |-> 0, signer |-> a, hash |-> <<h>>]
InvalidSigField == [tag |-> "badsig", val |-> 0, signer |-> ZeroAddress, hash |-> <<>>]
OtherField == [tag |-> "other", val |-> 0, signer |-> ZeroAddress, hash |-> <<>>]

\* header_step: "panic" (the expect on seal().get(0)), "decoder" (the
\* DecoderError of as_val::<usize>), or the step.
header_step(header) ==
    IF Len(header.seal) < 1 THEN [kind |-> "panic", val |-> 0]
    ELSE IF header.seal[1].tag # "int" THEN [kind |-> "decoder", val |-> 0]
    ELSE [kind |-> "ok", val |-> header.seal[1].val]

\* header_signature: likewise, for seal().get(1) decoded as H520.
header_signature(header) ==
    IF Len(header.seal) < 2 THEN [kind |-> "panic", sig |-> OtherField]
    ELSE IF header.seal[2].tag \notin {"sig", "badsig"}
         THEN [kind |-> "decoder", sig |-> OtherField]
    ELSE [kind |-> "ok", sig |-> header.seal[2]]

\* ethkey::verify_address: "error" when no public key can be recovered from
\* the signature, else whether the recovered address is the given one.
verify_address(address, signature, message) ==
    IF signature.tag # "sig" THEN "error"
    ELSE IF signature.hash = <<message>> /\ signature.signer = address THEN "true"
    ELSE "false"

(***************************************************************************)
(* The engine's state.                                                     *)
(***************************************************************************)
VARIABLES
    security_parameter_k,  \* OuroborosParams.security_parameter_k
    step,                  \* Ouroboros.step
    proposed,              \* Ouroboros.proposed
    pvss_stage,            \* Ouroboros.pvss_stage
    slot_leaders,          \* Ouroboros.slot_leaders
    signer,                \* Ouroboros.signer: its address, and whether it can sign
    client,                \* Ouroboros.client and the PvssContract providers
    pvss_ledger,           \* the contract's commitments-and-shares of epoch 0, by sender
    last,                  \* the last operation, its inputs and what it returned
    phase_log,             \* history: the stage before and after the latest step() calls
    seals,                 \* history: Regular seals returned, by the step they carry
    clock,                 \* the clock thread's position inside step()
    miner,                 \* each miner thread's position inside generate_seal()
    stake_view,            \* history: the stake snapshot built last, and where it was read
    pvss_contract,         \* the PVSS contract on the ledger, and the transactions sent to it
    fts_calls,             \* history: the calls of follow_the_satoshi, with what they returned
    pvss_method,           \* ethjson::spec::OuroborosParams.pvss_method
    pvss_secret,           \* Ouroboros.pvss_secret: its variant, threshold and shares
    timer                  \* the wall clock and the timer of the TransitionHandler

vars == <<security_parameter_k, step, proposed, pvss_stage, slot_leaders, signer,
          client, pvss_ledger, last, phase_log, seals, clock, miner,
          stake_view, pvss_contract, fts_calls, pvss_method, pvss_secret, timer>>

NoPayload == "none"
OwnPayload == "own"
OtherPayload == "other"
Payloads == {NoPayload, OwnPayload, OtherPayload}

epoch_slots == EpochSlots(security_parameter_k)
StepLimit == MaxEpochs * epoch_slots + 1

epoch_number(s) == s \div epoch_slots
slot_in_epoch(s) == s % epoch_slots
\* A variant that compares with the whole epoch, and so never holds.
after_4k_slots_never(s) == slot_in_epoch(s) > EpochSlotsPerK * security_parameter_k
\* A variant that holds from slot 4k on.
after_4k_slots_inclusive(s) == slot_in_epoch(s) >= RevealAfterPerK * security_parameter_k
after_4k_slots(s) == slot_in_epoch(s) > RevealAfterPerK * security_parameter_k
\* A variant that holds at the last slot of an epoch.
last_slot_in_epoch(s) == slot_in_epoch(s) = epoch_slots - 1
first_slot_in_new_epoch(s) == slot_in_epoch(s) = 0

\* step_proposer: NoProposer stands for the panic of the remainder by the
\* length of an empty schedule.
NoProposer == 0 - 1

\* A variant that takes the leader of the engine's step, not of s.
step_proposer_of_current(s) ==
    IF Len(slot_leaders) = 0 THEN NoProposer
    ELSE slot_leaders[(step % Len(slot_leaders)) + 1]

step_proposer(s) ==
    IF Len(slot_leaders) = 0 THEN NoProposer
    ELSE slot_leaders[(s % Len(slot_leaders)) + 1]

is_step_proposer(s, address) == step_proposer(s) = address

\* A variant without the slack of one step.
is_future_step_no_slack(s) == s > step
is_future_step(s) == s > step + 1

\* A variant of one field more.
seal_fields_more == SealFields + 1
seal_fields == SealFields

NoResult ==
    [op |-> "none", result |-> "ok", seal |-> <<>>, header |-> <<>>, parent |-> <<>>,
     report |-> <<>>, mismatch |-> <<>>, published |-> <<>>, notified |-> FALSE,
     passed |-> <<>>, query |-> <<>>, value |-> <<>>]

\* The stake snapshot of Ouroboros::new (lines 205-207): read from the genesis
\* accounts, not from a block of the ledger.
NoBlock == 0 - 1
GenesisView(accounts) ==
    [at |-> NoBlock, block |-> NoBlock, reads |-> {},
     snapshot |-> stakeholders(accounts)]

\* PvssContract::new and the contract as deployed: nothing stored, no
\* transaction sent.
NewContract == [storage |-> {}, passed |-> {}]

IdleClock == [pc |-> "idle"]

\* The timer of the transition service: whether one is registered, the wall
\* clock (now), network_wide_start_time (start), step_duration (duration), the
\* time the timer was registered at and the delay it was registered with.
NoTimer == [armed |-> FALSE, now |-> 0, start |-> 0, duration |-> 0, armed_at |-> 0,
            delay |-> 0]
IdleMiner == [pc |-> "idle", step |-> 0]

(***************************************************************************)
(* PVSS secrets (pvss_secret.rs) and the pvssMethod option.                *)
(***************************************************************************)

\* A variant that rounds the threshold down.
ThresholdFloor(n) == n \div 2

\* The threshold for n keys (pvss_secret.rs:76 and 139, mod.rs:165).
Threshold(n) == (n \div 2) + (n % 2)

Created(variant, n) ==
    [kind |-> "ok", variant |-> variant, threshold |-> Threshold(n), shares |-> n,
     message |-> "none"]

Panicked(message) ==
    [kind |-> "panic", variant |-> "none", threshold |-> 0, shares |-> 0,
     message |-> message]

\* PvssSimple::new: no test on the number of keys.
PvssSimpleNew(n) == Created("Simple", n)

\* PvssScrape::new: the two assertions, then the escrow and the shares.
PvssScrapeNew(n) ==
    IF ~(n > 2) THEN Panicked("fewer than 3 participants")
    ELSE IF ~(Threshold(n) + 2 <= n) THEN Panicked("t + 2 <= n")
    ELSE Created("Scrape", n)

\* pvss_secret::PvssSecret::new(pvss_method, public_keys), for n keys.
PvssSecretNew(method, n) ==
    IF method = "Simple" THEN PvssSimpleNew(n) ELSE PvssScrapeNew(n)

\* The pvssMethod option of the JSON spec, and its deserialization: the
\* kebab-case names of the variants, Scrape when the option is absent, an
\* error for any other string.
PvssMethodOptions == {"absent", "simple", "scrape", "invalid"}

deserialize_pvss_method(option) ==
    IF option = "absent" THEN [kind |-> "ok", value |-> "Scrape"]
    ELSE IF option = "simple" THEN [kind |-> "ok", value |-> "Simple"]
    ELSE IF option = "scrape" THEN [kind |-> "ok", value |-> "Scrape"]
    ELSE [kind |-> "err", value |-> "none"]

\* The engine's own PvssSecret::new(validators, accounts) (mod.rs:152-190):
\* pvss::simple whatever the option, the threshold for the number of
\* validators, and a share for each validator that has an account.
EngineSecret(accounts) ==
    [variant |-> "Simple", threshold |-> Threshold(NumValidators),
     shares |-> Len(stakeholders(accounts))]

\* Ouroboros::new, for a start step and the genesis accounts, in an
\* environment: the signer, the client and the ledger; the spec it is
\* built from has the pvssMethod option given.
InitEngineTimed(k, start_step, accounts, seed, env, option, registered) ==
    /\ timer = registered
    /\ deserialize_pvss_method(option).kind = "ok"
    /\ pvss_method = deserialize_pvss_method(option).value
    /\ pvss_secret = EngineSecret(accounts)
    /\ security_parameter_k = k
    /\ step = start_step
    /\ proposed = FALSE
    /\ pvss_stage = "Commit"
    /\ slot_leaders = InitialSlotLeaders(accounts, seed, k)
    /\ signer = env.signer
    /\ client = env.client
    /\ pvss_ledger = env.ledger
    /\ last = NoResult
    /\ phase_log = <<"Commit">>
    /\ seals = [s \in {} |-> 0]
    /\ clock = IdleClock
    /\ miner = [m \in 1..NumMiners |-> IdleMiner]
    /\ stake_view = GenesisView(accounts)
    /\ pvss_contract = NewContract
    /\ fts_calls = <<>>

\* The same with a start step given (a test): no timer is registered.
InitEngineWith(k, start_step, accounts, seed, env, option) ==
    InitEngineTimed(k, start_step, accounts, seed, env, option, NoTimer)

\* The same, the option being absent from the spec.
InitEngineIn(k, start_step, accounts, seed, env) ==
    InitEngineWith(k, start_step, accounts, seed, env, "absent")

\* A new engine: the signer is the default one, no client is registered.
NewEnv ==
    [signer |-> [address |-> ZeroAddress, has_key |-> FALSE],
     client |-> "none",
     ledger |-> [a \in Addresses |-> NoPayload]]

InitEngine(k, start_step, accounts, seed) ==
    InitEngineIn(k, start_step, accounts, seed, NewEnv)

\* An engine in service: a signer whose key the account provider holds, a
\* registered client, and the signer's payload on the ledger or not yet.
ServiceEnvs ==
    { [signer |-> [address |-> a, has_key |-> TRUE],
       client |-> "alive",
       ledger |-> [b \in Addresses |-> IF b = a THEN payload ELSE NoPayload]] :
      a \in Validators, payload \in {OwnPayload, NoPayload} }

\* The start steps of the sequential specification: the first slot of an
\* epoch, the last slot before the reveal threshold is passed, and the slot
\* before the last of an epoch.
StartSteps(k) == {0, RevealAfterPerK * k, EpochSlots(k) - 2}

\* The genesis accounts of the sequential runs: one validator holds all the
\* stake (the first one, or the last one), or all hold the same stake.
SoleOrEqualStakes ==
    {a \in GenesisAccounts :
        \/ \A v \in Validators : a[v] = MaxCoin
        \/ \E w \in {1, NumValidators} :
               \A v \in Validators : a[v] = IF v = w THEN MaxCoin ELSE NoAccount}

Init ==
    \E k \in 1..MaxK, accounts \in SoleOrEqualStakes, seed \in 0..(NumSeeds - 1) :
        \E start_step \in StartSteps(k) :
            InitEngine(k, start_step, accounts, seed)

InitPhase ==
    \E k \in 1..MaxK, accounts \in SoleOrEqualStakes, seed \in 0..(NumSeeds - 1),
       env \in ServiceEnvs \cup {NewEnv} :
        \E start_step \in 0..(EpochSlots(k) - 1) :
            InitEngineIn(k, start_step, accounts, seed, env)

(***************************************************************************)
(* The PVSS contract (pvss_contract.rs).                                   *)
(***************************************************************************)

\* The outcome of PvssContract::broadcast_commitments_and_shares: without a
\* registered provider nothing is sent; a dropped client fails the call; with
\* a live client the transaction is accepted or refused (tx).  Whatever the
\* commitments and shares, the payload sent is the constant of line 88.
broadcast_commitments_and_shares(epoch, tx) ==
    [epoch |-> epoch,
     payload |-> HackCommitment,
     outcome |-> IF client = "none" THEN "no_provider"
                 ELSE IF client = "dropped" THEN "no_client"
                 ELSE tx]

\* PvssContract::get_commitments_and_shares(0, address), as step() calls it:
\* nothing when no provider is registered, the client is gone, or nothing is
\* stored for the sender.
get_commitments_and_shares(address) ==
    IF client # "alive" THEN NoPayload ELSE pvss_ledger[address]

\* What the engine passes to broadcast_commitments_and_shares: the
\* commitments and the shares of its PvssSecret (mod.rs:434-438); and what
\* another caller may pass.
OwnSecret == [commitments |-> "own", shares |-> "own"]
OtherSecret == [commitments |-> "other", shares |-> "other"]

\* A u64 as the contract's getCommitment returns it.
Commitment(n) == [commitment |-> n]

\* The contract once a saveCommitment transaction of `sender` for `epoch` is
\* sealed: it stores the value sent; what the caller had passed to the publish
\* is kept beside it.
Key(t) == <<t[1], t[2]>>
Replace(set, t) == {u \in set : Key(u) # Key(t)} \cup {t}
Sealed(contract, epoch, sender, value, payload) ==
    [storage |-> Replace(contract.storage, <<epoch, sender, value>>),
     passed |-> Replace(contract.passed, <<epoch, sender, payload>>)]

\* provider::Contract::get_commitment(epoch_index, sender): an error when the
\* client is gone or its call fails (lines 64-70), else what the contract
\* returns: the value stored, or for a key never written the unset value or
\* an error, as the contract has it.
provider_get_commitment(epoch, sender, call, unwritten) ==
    LET stored == {t \in pvss_contract.storage : Key(t) = <<epoch, sender>>}
    IN IF client # "alive" \/ call = "err" THEN [kind |-> "Err", value |-> <<>>]
       ELSE IF stored = {}
            THEN (IF unwritten = "err" THEN [kind |-> "Err", value |-> <<>>]
                  ELSE [kind |-> "Ok", value |-> <<Commitment(UnsetCommitment)>>])
       ELSE [kind |-> "Ok", value |-> <<(CHOOSE t \in stored : TRUE)[3]>>]

\* PvssContract::get_commitment (lines 119-137): None without a provider;
\* else the read of epoch 42 that is expected to succeed, then the read asked
\* for.
get_commitment(epoch, address, call42, call, unwritten) ==
    IF client = "none" THEN [result |-> "None", value |-> <<>>]
    ELSE IF provider_get_commitment(HackEpoch, address, call42, unwritten).kind = "Err"
         THEN [result |-> "panic", value |-> <<>>]
    ELSE LET r == provider_get_commitment(epoch, address, call, unwritten)
         IN IF r.kind = "Ok" THEN [result |-> "Some", value |-> r.value]
            ELSE [result |-> "None", value |-> <<>>]

(***************************************************************************)
(* The operations of the engine, each as one atomic action.                *)
(***************************************************************************)

Window(log, n) == IF Len(log) > n THEN SubSeq(log, Len(log) - n + 1, Len(log)) ELSE log

\* compute_new_slot_leaders at the (new) step s: the two unsigned
\* subtractions panic when overflow checks are on and they underflow;
\* nothing is written to the schedule.
compute_new_slot_leaders(s, overflow_checks) ==
    IF overflow_checks
       /\ (s < SlotSecurityPerK * security_parameter_k \/ epoch_number(s) < 1)
    THEN "panic" ELSE "ok"

\* A variant that reads the balances at the current step.
back_current_slots(s) == s

\* Line 277: the subtraction as a build without overflow checks computes it
\* (with them, compute_new_slot_leaders has panicked when s is below 2k).
back_2k_slots(s) == (s - (SlotSecurityPerK * security_parameter_k)) % UsizeModulus

\* What client.balance answers for the validators at a block: a balance, or
\* nothing.  The views taken: no answer at all, or the stakes of a genesis.
NoAnswers == [v \in Validators |-> NoAccount]
LedgerViews == {NoAnswers} \cup SoleOrEqualStakes

\* Lines 283-297: every validator with its balance at block s - 2k, or with
\* zero where the client gives none, sorted by id.
RecomputedView(s, balances) ==
    [at |-> s,
     block |-> back_2k_slots(s),
     reads |-> {<<v, back_2k_slots(s)>> : v \in Validators},
     snapshot |-> SortByKey([v \in 1..NumValidators |->
                                <<v, IF balances[v] = NoAccount THEN 0 ELSE balances[v]>>],
                            1)]

\* The stake view after compute_new_slot_leaders: a new one when the client
\* upgrades (lines 280-281), else the one there was.
StakeViewAfter(reads_ledger, s, balances) ==
    IF reads_ledger THEN RecomputedView(s, balances) ELSE stake_view

\* A variant in which the tests fall through: Commit may reach Reveal in one call.
NextStageFallThrough(stage, s) ==
    IF stage = "Commit" THEN (IF after_4k_slots(s) THEN "Reveal" ELSE "CommitBroadcast")
    ELSE IF stage = "CommitBroadcast" /\ after_4k_slots(s) THEN "Reveal"
    ELSE IF stage = "Reveal" /\ first_slot_in_new_epoch(s) THEN "Commit"
    ELSE stage

\* A variant that takes the predicates on the step before the increment.
NextStageBeforeIncrement(stage, s) ==
    IF stage = "Commit" THEN "CommitBroadcast"
    ELSE IF stage = "CommitBroadcast" /\ after_4k_slots(s - 1) THEN "Reveal"
    ELSE IF stage = "Reveal" /\ first_slot_in_new_epoch(s - 1) THEN "Commit"
    ELSE stage

\* The stage step() moves to from `stage`, the predicates taken on the new step s.
NextStage(stage, s) ==
    IF stage = "Commit" THEN "CommitBroadcast"
    ELSE IF stage = "CommitBroadcast" /\ after_4k_slots(s) THEN "Reveal"
    ELSE IF stage = "Reveal" /\ first_slot_in_new_epoch(s) THEN "Commit"
    ELSE stage

\* A variant that leaves the counter as it is.
fetch_add_nothing(s) == s

\* Line 427: self.step.fetch_add(1), which wraps around on overflow.
fetch_add(s) == (s + 1) % UsizeModulus

\* Whether step() gets past the read-back of lines 453-461: the expect fails
\* on nothing read, the assertions on anything but the engine's own
\* commitments and shares.
ReadBackPasses == get_commitments_and_shares(signer.address) = OwnPayload

\* The body of Engine::step.
StepEffects(views) ==
    /\ \E tx \in {"ok", "err"}, overflow_checks \in BOOLEAN, balances \in views :
        LET s == fetch_add(step)
            publishes == pvss_stage = "Commit"
            recomputes == pvss_stage = "Reveal" /\ first_slot_in_new_epoch(s)
            pub == broadcast_commitments_and_shares(epoch_number(s), tx)
            aborted == recomputes /\ compute_new_slot_leaders(s, overflow_checks) = "panic"
            reads_ledger == recomputes /\ ~aborted /\ client = "alive"
            stage2 == IF aborted THEN pvss_stage ELSE NextStage(pvss_stage, s)
            done == ~aborted /\ ReadBackPasses
        IN /\ (publishes /\ client = "alive") \/ tx = "ok"
           /\ (recomputes /\ s < EpochSlotsPerK * security_parameter_k) \/ overflow_checks
           /\ reads_ledger \/ balances = NoAnswers
           /\ stake_view' = StakeViewAfter(reads_ledger, s, balances)
           /\ step' = s
           /\ pvss_stage' = stage2
           /\ proposed' = IF done THEN FALSE ELSE proposed
           /\ phase_log' = Window(Append(phase_log, stage2), epoch_slots + 1)
           /\ seals' = [t \in {u \in DOMAIN seals : u >= s} |-> seals[t]]
           /\ last' = [NoResult EXCEPT !.op = "step",
                          !.result = IF done THEN "ok" ELSE "panic",
                          !.published = IF publishes THEN <<pub>> ELSE <<>>,
                          !.passed = IF publishes THEN <<OwnSecret>> ELSE <<>>,
                          !.notified = done /\ client = "alive"]
    /\ UNCHANGED <<pvss_method, pvss_secret,
                   pvss_contract, fts_calls,
                   security_parameter_k, slot_leaders, signer, client, pvss_ledger,
                   clock, miner>>

\* Engine::step, called by hand: the timer is as it was.
Step(views) == StepEffects(views) /\ UNCHANGED timer

\* The blocks the miner hands to generate_seal.
Blocks == [author : Validators, number : {1}, gas_limit : {ParentGasLimit - 1}]

RegularSeal(s, header) == <<IntField(s), SigField(signer.address, bare_hash(header))>>

\* The proposer guard of generate_seal (line 510).
SealGuard(s, header) == TRUE

\* A variant that does not set the flag.
StoreProposedNever(sealed) == proposed

\* A variant that sets the flag whether a seal was signed or not.
StoreProposedAlways(sealed) == TRUE

\* Line 513: the flag after a seal has been signed (sealed) or not.
StoreProposed(sealed) == proposed \/ sealed

CountSeal(history, s) ==
    [t \in DOMAIN history \cup {s} |->
        IF t = s THEN (IF s \in DOMAIN history THEN 2 ELSE 1) ELSE history[t]]

\* Engine::generate_seal.
GenerateSeal(header) ==
    LET regular == ~proposed /\ SealGuard(step, header) /\ signer.has_key
    IN /\ proposed' = StoreProposed(regular)
       /\ seals' = IF regular THEN CountSeal(seals, step) ELSE seals
       /\ last' = [NoResult EXCEPT !.op = "generate_seal",
                      !.result = IF regular THEN "Regular" ELSE "None",
                      !.seal = IF regular THEN RegularSeal(step, header) ELSE <<>>,
                      !.header = <<header>>]
       /\ UNCHANGED <<timer, pvss_method, pvss_secret,
                   stake_view, pvss_contract, fts_calls,
                   security_parameter_k, step, pvss_stage, slot_leaders, signer,
                      client, pvss_ledger, phase_log, clock, miner>>

\* Engine::set_signer: the account provider holds the key of the address
\* under the password (has_key) or does not.
SetSigner(address, has_key) ==
    /\ signer' = [address |-> address, has_key |-> has_key]
    /\ last' = NoResult
    /\ UNCHANGED <<timer, pvss_method, pvss_secret,
                   stake_view, pvss_contract, fts_calls,
                   security_parameter_k, step, proposed, pvss_stage, slot_leaders,
                   client, pvss_ledger, phase_log, seals, clock, miner>>

\* Engine::register_client.
RegisterClient ==
    /\ client' = "alive"
    /\ last' = NoResult
    /\ UNCHANGED <<timer, pvss_method, pvss_secret,
                   stake_view, pvss_contract, fts_calls,
                   security_parameter_k, step, proposed, pvss_stage, slot_leaders,
                   signer, pvss_ledger, phase_log, seals, clock, miner>>

\* The client is dropped: its weak references no longer upgrade.
DropClient ==
    /\ client = "alive"
    /\ client' = "dropped"
    /\ last' = NoResult
    /\ UNCHANGED <<timer, pvss_method, pvss_secret,
                   stake_view, pvss_contract, fts_calls,
                   security_parameter_k, step, proposed, pvss_stage, slot_leaders,
                   signer, pvss_ledger, phase_log, seals, clock, miner>>

\* A transaction of the ledger stores commitments and shares of epoch 0 for a
\* sender: the engine's own, or others.
LedgerSave(sender, payload) ==
    /\ pvss_ledger[sender] # payload
    /\ pvss_ledger' = [pvss_ledger EXCEPT ![sender] = payload]
    /\ last' = NoResult
    /\ UNCHANGED <<timer, pvss_method, pvss_secret,
                   stake_view, pvss_contract, fts_calls,
                   security_parameter_k, step, proposed, pvss_stage, slot_leaders,
                   signer, client, phase_log, seals, clock, miner>>

\* A variant that also advances the step counter.
VerifyBlockBasicStepping(header) ==
    /\ step' = fetch_add(step)
    /\ last' = [NoResult EXCEPT !.op = "verify_block_basic",
                   !.result = IF Len(header.seal) # seal_fields
                              THEN "InvalidSealArity" ELSE "ok",
                   !.header = <<header>>]
    /\ UNCHANGED <<timer, pvss_method, pvss_secret,
                   stake_view, pvss_contract, fts_calls,
                   security_parameter_k, proposed, pvss_stage, slot_leaders,
                   signer, client, pvss_ledger, phase_log, seals, clock, miner>>

\* Engine::verify_block_basic.
VerifyBlockBasic(header) ==
    /\ last' = [NoResult EXCEPT !.op = "verify_block_basic",
                   !.result = IF Len(header.seal) # seal_fields
                              THEN "InvalidSealArity" ELSE "ok",
                   !.mismatch = IF Len(header.seal) # seal_fields
                                THEN <<[expected |-> seal_fields,
                                        found |-> Len(header.seal)]>>
                                ELSE <<>>,
                   !.header = <<header>>]
    /\ UNCHANGED <<timer, pvss_method, pvss_secret,
                   stake_view, pvss_contract, fts_calls,
                   security_parameter_k, step, proposed, pvss_stage, slot_leaders,
                   signer, client, pvss_ledger, phase_log, seals, clock, miner>>


\* The outcome of verify_block_family on a header and its parent: the result
\* and the report made to the validator set.
FamilyOutcome(result, kind, who, expected, found) ==
    [result |-> result,
     report |-> IF kind = "none" THEN <<>> ELSE <<[kind |-> kind, who |-> who]>>,
     mismatch |-> IF result = "NotProposer"
                  THEN <<[expected |-> expected, found |-> found]>> ELSE <<>>]

PlainOutcome(result) == FamilyOutcome(result, "none", ZeroAddress, 0, 0)

\* Lines 583-586: whether a gas limit is out of the bounds around the
\* parent's, for a divisor that is not zero.
GasOutOfBounds(gas_limit, parent_gas_limit, gas_limit_divisor) ==
    LET min_gas == parent_gas_limit - (parent_gas_limit \div gas_limit_divisor)
        max_gas == parent_gas_limit + (parent_gas_limit \div gas_limit_divisor)
    IN gas_limit <= min_gas \/ gas_limit >= max_gas

\* Lines 583-590: the gas limit bound against the parent.
GasLimitCheck(header, parent) ==
    IF GasOutOfBounds(header.gas_limit, parent.gas_limit, GasLimitBoundDivisor)
    THEN PlainOutcome("InvalidGasLimit") ELSE PlainOutcome("ok")

\* A variant that lets a block of its parent's step through.
BeforeParent(s, parent_step) == s < parent_step

\* Line 577: the block is not from a later step than its parent.
NotAfterParent(s, parent_step) == s = parent_step \/ s <= parent_step

\* Lines 570-581: the genesis-number check and the check that the parent is
\* from a previous step.
ParentStepCheck(header, parent, s) ==
    LET parent_step == header_step(parent)
    IN IF header.number = 0 THEN PlainOutcome("RidiculousNumber")
       ELSE IF parent_step.kind # "ok" THEN PlainOutcome(parent_step.kind)
       ELSE IF NotAfterParent(s, parent_step.val)
            THEN FamilyOutcome("DoubleVote", "malicious", header.author, 0, 0)
       ELSE GasLimitCheck(header, parent)

\* Lines 561-568: the signature must be the step proposer's.
ProposerCheck(header, parent, s) ==
    LET proposer_signature == header_signature(header)
        correct_proposer == step_proposer(s)
    IN IF proposer_signature.kind # "ok" THEN PlainOutcome(proposer_signature.kind)
       ELSE IF correct_proposer = NoProposer THEN PlainOutcome("panic")
       ELSE LET verified == verify_address(correct_proposer, proposer_signature.sig,
                                           bare_hash(header))
            IN IF verified = "error" THEN PlainOutcome("crypto")
               ELSE IF verified = "false"
                    THEN FamilyOutcome("NotProposer", "none", ZeroAddress,
                                       correct_proposer, header.author)
               ELSE ParentStepCheck(header, parent, s)

\* Lines 555-560: the step is decoded and must not be in the future.
verify_block_family(header, parent) ==
    LET s == header_step(header)
    IN IF s.kind # "ok" THEN PlainOutcome(s.kind)
       ELSE IF is_future_step(s.val)
            THEN FamilyOutcome("InvalidSeal", "benign", header.author, 0, 0)
       ELSE ProposerCheck(header, parent, s.val)

\* Engine::verify_block_family.
VerifyBlockFamily(header, parent) ==
    LET out == verify_block_family(header, parent)
    IN /\ last' = [NoResult EXCEPT !.op = "verify_block_family",
                      !.result = out.result,
                      !.report = out.report,
                      !.mismatch = out.mismatch,
                      !.header = <<header>>,
                      !.parent = <<parent>>]
       /\ UNCHANGED <<timer, pvss_method, pvss_secret,
                   stake_view, pvss_contract, fts_calls,
                   security_parameter_k, step, proposed, pvss_stage, slot_leaders,
                      signer, client, pvss_ledger, phase_log, seals, clock, miner>>

(***************************************************************************)
(* The headers the operations are applied to.                              *)
(***************************************************************************)

BareHeaders(numbers, gas) == [author : Validators, number : numbers, gas_limit : gas]

WithSeal(bare, seal) ==
    [author |-> bare.author, number |-> bare.number, gas_limit |-> bare.gas_limit,
     seal |-> seal]

AnotherHash == [author |-> ZeroAddress, number |-> 0, gas_limit |-> 0]

\* The second fields a header may carry: a signature of one of the validators
\* over this header or over another one, an unrecoverable signature, anything
\* else.
SecondFields(bare) ==
    {SigField(a, h) : a \in Validators, h \in {bare_hash(bare), AnotherHash}}
    \cup {InvalidSigField, OtherField}

\* The seals of the given first fields and second fields, of every length up
\* to three.
SealsOf(first, second) ==
    {<<>>} \cup {<<f>> : f \in first} \cup {<<f, g>> : f \in first, g \in second}
    \cup {<<f, g, OtherField>> : f \in first, g \in second}

GasAccepted == ParentGasLimit
GasAtMinimum == ParentGasLimit - ParentGasLimit \div GasLimitBoundDivisor

\* Headers with every seal over the given steps.
HeadersOf(steps) ==
    UNION {{WithSeal(b, seal) :
               seal \in SealsOf({IntField(n) : n \in steps} \cup {OtherField},
                                SecondFields(b))} :
           b \in BareHeaders({0, 1}, {GasAccepted, GasAtMinimum})}

\* Well-formed headers only: a step and the author's signature of the header.
SealedHeadersOf(steps) ==
    UNION {{WithSeal(b, <<IntField(n), SigField(b.author, bare_hash(b))>>) :
               n \in steps} :
           b \in BareHeaders({1}, {GasAccepted})}

SealedParentsOf(steps) ==
    {[author |-> ZeroAddress, number |-> 0, gas_limit |-> ParentGasLimit,
      seal |-> <<IntField(n)>>] : n \in steps}

ParentsOf(steps) ==
    {[author |-> ZeroAddress, number |-> 0, gas_limit |-> ParentGasLimit, seal |-> seal] :
        seal \in {<<>>, <<OtherField>>} \cup {<<IntField(n)>> : n \in steps}}

\* Headers of each seal length, for verify_block_basic.
AritiesOf(n) ==
    {[author |-> ZeroAddress, number |-> 0, gas_limit |-> ParentGasLimit,
      seal |-> [i \in 1..len |-> OtherField]] : len \in 0..n}

(***************************************************************************)
(* The engine driven sequentially: every operation is atomic.              *)
(***************************************************************************)

StepCalls == Len(phase_log) - 1

Next ==
    \/ (StepCalls < MaxStepCalls /\ Step({NoAnswers}))
    \/ \E header \in Blocks : GenerateSeal(header)
    \/ \E address \in Validators, has_key \in BOOLEAN : SetSigner(address, has_key)
    \/ RegisterClient
    \/ DropClient
    \/ \E sender \in Validators : LedgerSave(sender, OwnPayload)
    \/ \E header \in AritiesOf(SealFields + 1) : VerifyBlockBasic(header)
    \/ \E header \in SealedHeadersOf({step + 1}), parent \in SealedParentsOf({0}) :
           VerifyBlockFamily(header, parent)

Spec == Init /\ [][Next]_vars

(***************************************************************************)
(* The stage machine alone: step() called again and again, from every      *)
(* start step, over MaxEpochs epochs.                                      *)
(***************************************************************************)

NextPhase ==
    \/ (step < StepLimit /\ Step({NoAnswers}))
    \/ RegisterClient
    \/ \E sender \in Validators : LedgerSave(sender, OwnPayload)

SpecPhase == InitPhase /\ [][NextPhase]_vars

(***************************************************************************)
(* Verification: headers and parents with every seal around the engine's   *)
(* step are verified, at the start of an epoch and at its end.             *)
(***************************************************************************)

\* ---------------------------------------------------------------------
\* The clock thread and the miner threads, one atomic access at a time.
\* step() runs on the clock's worker, generate_seal on the miners'; the
\* shared fields are the atomics step and proposed.
\* ---------------------------------------------------------------------

Miners == 1..NumMiners

InitConc ==
    \E k \in 1..MaxK, accounts \in GenesisAccounts, seed \in 0..(NumSeeds - 1),
       env \in ServiceEnvs :
        \E start_step \in {0, RevealAfterPerK * k} :
            InitEngineIn(k, start_step, accounts, seed, env)

\* Line 427.
ClockFetchAdd ==
    /\ clock.pc = "idle"
    /\ step' = fetch_add(step)
    /\ clock' = [pc |-> "stage"]
    /\ last' = NoResult
    /\ UNCHANGED <<timer, pvss_method, pvss_secret,
                   stake_view, pvss_contract, fts_calls,
                   security_parameter_k, proposed, pvss_stage, slot_leaders, signer,
                   client, pvss_ledger, phase_log, seals, miner>>

\* Lines 429-451.
ClockStage ==
    /\ clock.pc = "stage"
    /\ \E overflow_checks \in BOOLEAN, balances \in LedgerViews :
        LET recomputes == pvss_stage = "Reveal" /\ first_slot_in_new_epoch(step)
            aborted == recomputes /\ compute_new_slot_leaders(step, overflow_checks) = "panic"
            reads_ledger == recomputes /\ ~aborted /\ client = "alive"
            stage2 == IF aborted THEN pvss_stage ELSE NextStage(pvss_stage, step)
        IN /\ (recomputes /\ step < EpochSlotsPerK * security_parameter_k) \/ overflow_checks
           /\ reads_ledger \/ balances = NoAnswers
           /\ stake_view' = StakeViewAfter(reads_ledger, step, balances)
           /\ pvss_stage' = stage2
           /\ phase_log' = Window(Append(phase_log, stage2), epoch_slots + 1)
           /\ clock' = [pc |-> IF aborted THEN "dead" ELSE "read_back"]
    /\ UNCHANGED <<timer, pvss_method, pvss_secret,
                   pvss_contract, fts_calls,
                   security_parameter_k, step, proposed, slot_leaders, signer,
                   client, pvss_ledger, last, seals, miner>>

\* Lines 453-461: the worker dies of the panic when the read-back fails.
ClockReadBack ==
    /\ clock.pc = "read_back"
    /\ clock' = [pc |-> IF ReadBackPasses THEN "clear" ELSE "dead"]
    /\ UNCHANGED <<timer, pvss_method, pvss_secret,
                   stake_view, pvss_contract, fts_calls,
                   security_parameter_k, step, proposed, pvss_stage, slot_leaders,
                   signer, client, pvss_ledger, last, phase_log, seals, miner>>

\* Line 464.
ClockClear ==
    /\ clock.pc = "clear"
    /\ proposed' = FALSE
    /\ clock' = [pc |-> "notify"]
    /\ UNCHANGED <<timer, pvss_method, pvss_secret,
                   stake_view, pvss_contract, fts_calls,
                   security_parameter_k, step, pvss_stage, slot_leaders, signer,
                   client, pvss_ledger, last, phase_log, seals, miner>>

\* Lines 465-469.
ClockNotify ==
    /\ clock.pc = "notify"
    /\ clock' = IdleClock
    /\ last' = [NoResult EXCEPT !.op = "step", !.notified = client = "alive"]
    /\ UNCHANGED <<timer, pvss_method, pvss_secret,
                   stake_view, pvss_contract, fts_calls,
                   security_parameter_k, step, proposed, pvss_stage, slot_leaders,
                   signer, client, pvss_ledger, phase_log, seals, miner>>

\* Line 507: the load of the flag, and the early return.
MinerLoadProposed(m) ==
    /\ miner[m].pc = "idle"
    /\ IF proposed
       THEN /\ last' = [NoResult EXCEPT !.op = "generate_seal", !.result = "None"]
            /\ UNCHANGED miner
       ELSE /\ miner' = [miner EXCEPT ![m].pc = "load_step"]
            /\ last' = NoResult
    /\ UNCHANGED <<timer, pvss_method, pvss_secret,
                   stake_view, pvss_contract, fts_calls,
                   security_parameter_k, step, proposed, pvss_stage, slot_leaders,
                   signer, client, pvss_ledger, phase_log, seals, clock>>

\* Line 509.
MinerLoadStep(m) ==
    /\ miner[m].pc = "load_step"
    /\ miner' = [miner EXCEPT ![m] = [pc |-> "sign", step |-> step]]
    /\ UNCHANGED <<timer, pvss_method, pvss_secret,
                   stake_view, pvss_contract, fts_calls,
                   security_parameter_k, step, proposed, pvss_stage, slot_leaders,
                   signer, client, pvss_ledger, last, phase_log, seals, clock>>

\* Lines 510-511 and 518-524: the guard and the signature.
MinerSign(m, header) ==
    /\ miner[m].pc = "sign"
    /\ IF SealGuard(miner[m].step, header) /\ signer.has_key
       THEN /\ miner' = [miner EXCEPT ![m].pc = "store"]
            /\ last' = NoResult
       ELSE /\ miner' = [miner EXCEPT ![m] = IdleMiner]
            /\ last' = [NoResult EXCEPT !.op = "generate_seal", !.result = "None",
                                        !.header = <<header>>]
    /\ UNCHANGED <<timer, pvss_method, pvss_secret,
                   stake_view, pvss_contract, fts_calls,
                   security_parameter_k, step, proposed, pvss_stage, slot_leaders,
                   signer, client, pvss_ledger, phase_log, seals, clock>>

\* Lines 513-517: the store of the flag and the seal returned, which carries
\* the step the miner loaded.
MinerStore(m, header) ==
    /\ miner[m].pc = "store"
    /\ proposed' = TRUE
    /\ seals' = CountSeal(seals, miner[m].step)
    /\ miner' = [miner EXCEPT ![m] = IdleMiner]
    /\ last' = [NoResult EXCEPT !.op = "generate_seal", !.result = "Regular",
                                !.seal = RegularSeal(miner[m].step, header),
                                !.header = <<header>>]
    /\ UNCHANGED <<timer, pvss_method, pvss_secret,
                   stake_view, pvss_contract, fts_calls,
                   security_parameter_k, step, pvss_stage, slot_leaders, signer,
                   client, pvss_ledger, phase_log, clock>>

ConcBlock == [author |-> 1, number |-> 1, gas_limit |-> ParentGasLimit - 1]

NextConc ==
    \/ (StepCalls < MaxConcStep /\ ClockFetchAdd)
    \/ ClockStage
    \/ ClockReadBack
    \/ ClockClear
    \/ ClockNotify
    \/ \E m \in Miners : MinerLoadProposed(m)
    \/ \E m \in Miners : MinerLoadStep(m)
    \/ \E m \in Miners : MinerSign(m, ConcBlock)
    \/ \E m \in Miners : MinerStore(m, ConcBlock)

SpecConc == InitConc /\ [][NextConc]_vars

StepsAround == {n \in 0..(step + MaxSealAhead) : n >= step - 1}

InitVerify ==
    \E k \in 1..MaxK, accounts \in GenesisAccounts, seed \in 0..(NumSeeds - 1) :
        \E start_step \in {0, EpochSlots(k) - 1} :
            InitEngine(k, start_step, accounts, seed)

\* A verification leaves the engine as it is: the headers are tried in the
\* states construction and step() lead to, not again after each other.
Verified == last.op \in {"verify_block_family", "verify_block_basic"}

NextVerify ==
    \/ (StepCalls < MaxVerifyCalls /\ ~Verified /\ Step({NoAnswers}))
    \/ (~Verified /\ \E header \in HeadersOf(StepsAround), parent \in ParentsOf(StepsAround) :
                         VerifyBlockFamily(header, parent))
    \/ (~Verified /\ \E header \in HeadersOf(StepsAround) : VerifyBlockBasic(header))

SpecVerify == InitVerify /\ [][NextVerify]_vars

(***************************************************************************)
(* follow_the_satoshi called on its own, by nodes of any build.            *)
(***************************************************************************)

\* Seeds: none, seeds of exactly 32 bytes, a longer one that agrees with a
\* 32-byte seed on its first 32 bytes, and one that is too short.
SeedString(first, len) == [i \in 1..len |-> IF i = 1 \/ i > KeyBytes THEN first ELSE 0]
FtsSeeds ==
    {NoSeed}
    \cup {SomeSeed(SeedString(f, KeyBytes)) : f \in 1..NumSeeds}
    \cup {SomeSeed(SeedString(1, KeyBytes + 1)), SomeSeed(SeedString(1, KeyBytes - 1))}

\* Snapshots, sorted by stakeholder as the engine passes them, with and
\* without entries of no coin.
FtsSnapshots == {stakeholders(a) : a \in [Validators -> {NoAccount} \cup (0..MaxCoin)]}

FtsSlots == (1..MaxFtsSlots) \cup {EpochSlotsPerK}

\* The totals declared for a snapshot: none, its sum, and one more or less.
FtsTotals(balances) ==
    {t \in {0, SumCoins(balances) - 1, SumCoins(balances), SumCoins(balances) + 1} : t >= 0}

FtsCallOf(seed, read, balances, n, t) ==
    [seed |-> seed, read |-> read, balances |-> balances, epoch_slots |-> n,
     total_coins |-> t, result |-> FtsResult(seed, read, balances, n, t)]

InitFts == InitEngine(1, 0, [v \in Validators |-> MaxCoin], 0)

\* A first call.
FtsCall(seed, read, balances, n, t) ==
    /\ fts_calls = <<>>
    /\ fts_calls' = <<FtsCallOf(seed, read, balances, n, t)>>
    /\ UNCHANGED <<timer, pvss_method, pvss_secret,
                   security_parameter_k, step, proposed, pvss_stage, slot_leaders,
                   signer, client, pvss_ledger, last, phase_log, seals, clock, miner,
                   stake_view, pvss_contract>>

\* The same call again, on a node of this or another build.
FtsCallAgain(read) ==
    /\ Len(fts_calls) = 1
    /\ LET c == fts_calls[1]
       IN fts_calls' = Append(fts_calls,
                              FtsCallOf(c.seed, read, c.balances, c.epoch_slots,
                                        c.total_coins))
    /\ UNCHANGED <<timer, pvss_method, pvss_secret,
                   security_parameter_k, step, proposed, pvss_stage, slot_leaders,
                   signer, client, pvss_ledger, last, phase_log, seals, clock, miner,
                   stake_view, pvss_contract>>

NextFts ==
    \/ \E seed \in FtsSeeds, read \in UnalignedReads, balances \in FtsSnapshots,
          n \in FtsSlots :
           \E t \in FtsTotals(balances) : FtsCall(seed, read, balances, n, t)
    \/ \E read \in UnalignedReads : FtsCallAgain(read)

SpecFts == InitFts /\ [][NextFts]_vars

(***************************************************************************)
(* The PVSS transport on its own: publishes, the ledger sealing them, and   *)
(* reads, around a client that registers and goes away.                    *)
(***************************************************************************)

TransportEpochs == 0..(MaxEpochs - 1)

Published == Cardinality(pvss_contract.passed)

InitTransport ==
    \E k \in 1..MaxK, accounts \in SoleOrEqualStakes, env \in ServiceEnvs \cup {NewEnv} :
        InitEngineIn(k, 0, accounts, 0, env)

\* PvssContract::broadcast_commitments_and_shares, called with any
\* commitments and shares.
BroadcastCommitmentsAndShares(epoch, payload, tx) ==
    LET pub == broadcast_commitments_and_shares(epoch, tx)
    IN /\ client = "alive" \/ tx = "ok"
       /\ last' = [NoResult EXCEPT !.op = "broadcast_commitments_and_shares",
                                    !.published = <<pub>>,
                                    !.passed = <<payload>>,
                                    !.query = <<epoch, signer.address>>]
       /\ UNCHANGED <<timer, pvss_method, pvss_secret,
                   security_parameter_k, step, proposed, pvss_stage, slot_leaders,
                      signer, client, pvss_ledger, phase_log, seals, clock, miner,
                      stake_view, pvss_contract, fts_calls>>

\* A block is sealed with the transaction the publish last done has sent, the
\* signer being its sender: the contract stores the value sent.
Mine ==
    /\ last.published # <<>>
    /\ last.published[1].outcome = "ok"
    /\ pvss_contract' = Sealed(pvss_contract, last.published[1].epoch, signer.address,
                                Commitment(last.published[1].payload), last.passed[1])
    /\ last' = NoResult
    /\ UNCHANGED <<timer, pvss_method, pvss_secret,
                   security_parameter_k, step, proposed, pvss_stage, slot_leaders,
                   signer, client, pvss_ledger, phase_log, seals, clock, miner,
                   stake_view, fts_calls>>

\* PvssContract::get_commitment.
GetCommitment(epoch, address, call42, call, unwritten) ==
    LET r == get_commitment(epoch, address, call42, call, unwritten)
    IN /\ client = "alive" \/ (call42 = "ok" /\ call = "ok" /\ unwritten = "zero")
       /\ last' = [NoResult EXCEPT !.op = "get_commitment",
                                    !.result = r.result,
                                    !.query = <<epoch, address>>,
                                    !.value = r.value]
       /\ UNCHANGED <<timer, pvss_method, pvss_secret,
                   security_parameter_k, step, proposed, pvss_stage, slot_leaders,
                      signer, client, pvss_ledger, phase_log, seals, clock, miner,
                      stake_view, pvss_contract, fts_calls>>

NextTransport ==
    \/ RegisterClient
    \/ DropClient
    \/ \E address \in Validators : SetSigner(address, TRUE)
    \/ \E epoch \in TransportEpochs, payload \in {OwnSecret, OtherSecret},
          tx \in {"ok", "err"} :
           /\ Published < MaxPublished
           /\ BroadcastCommitmentsAndShares(epoch, payload, tx)
    \/ Mine
    \/ \E epoch \in TransportEpochs, address \in Validators,
          call42 \in {"ok", "err"}, call \in {"ok", "err"}, unwritten \in {"zero", "err"} :
           GetCommitment(epoch, address, call42, call, unwritten)

SpecTransport == InitTransport /\ [][NextTransport]_vars

(***************************************************************************)
(* The turn of an epoch: step() called from the reveal threshold on, over   *)
(* MaxEpochs epochs, the ledger answering the balance reads as it may.      *)
(***************************************************************************)

\* Genesis accounts with and without an account of no coin.
EpochAccounts ==
    SoleOrEqualStakes \cup {[v \in Validators |-> IF v = 1 THEN MaxCoin ELSE 0]}

InitEpoch ==
    \E k \in 1..MaxK, accounts \in EpochAccounts, env \in ServiceEnvs \cup {NewEnv} :
        InitEngineIn(k, RevealAfterPerK * k, accounts, 0, env)

NextEpoch ==
    \/ (step < StepLimit /\ Step(LedgerViews))
    \/ RegisterClient
    \/ DropClient

SpecEpoch == InitEpoch /\ [][NextEpoch]_vars

(***************************************************************************)
(* PVSS secrets created for any method and number of keys, beside an       *)
(* engine built from a spec with any pvssMethod option.                    *)
(***************************************************************************)

\* The numbers of keys tried: for Simple from one key on (what the library
\* does with a threshold of zero is not the engine's to say).
KeyCounts(method) == IF method = "Simple" THEN 1..MaxKeys ELSE 0..MaxKeys

InitPvss ==
    \E option \in PvssMethodOptions, accounts \in SoleOrEqualStakes :
        InitEngineWith(1, 0, accounts, 0, NewEnv, option)

\* A construction leaves the engine as it is: the constructors are tried in
\* the states construction and step() lead to, not again after each other.
Constructing == last.op \in {"PvssSecret::new", "Ouroboros::new"}

\* pvss_secret::PvssSecret::new.
CreateSecret(method, n) ==
    /\ last' = [NoResult EXCEPT !.op = "PvssSecret::new",
                                 !.result = PvssSecretNew(method, n).kind,
                                 !.query = <<method, n>>,
                                 !.value = <<PvssSecretNew(method, n)>>]
    /\ UNCHANGED <<timer, pvss_method, pvss_secret, security_parameter_k, step, proposed,
                   pvss_stage, slot_leaders, signer, client, pvss_ledger, phase_log,
                   seals, clock, miner, stake_view, pvss_contract, fts_calls>>

\* Ouroboros::new for another spec: the call of follow_the_satoshi it makes,
\* and whether the construction passes the assertion of fts.rs:37.
NewEngine(list, accounts, k) ==
    /\ last' = [NoResult EXCEPT
                   !.op = "Ouroboros::new",
                   !.result = IF ConstructorFtsCall(list, accounts, k).total_coins = 0
                              THEN "panic" ELSE "ok",
                   !.query = <<list, accounts>>,
                   !.value = <<ConstructorFtsCall(list, accounts, k)>>]
    /\ UNCHANGED <<timer, pvss_method, pvss_secret, security_parameter_k, step, proposed,
                   pvss_stage, slot_leaders, signer, client, pvss_ledger, phase_log,
                   seals, clock, miner, stake_view, pvss_contract, fts_calls>>

NextPvss ==
    \/ (~Constructing /\ \E list \in ValidatorLists, k \in 1..MaxK,
                             accounts \in [Validators -> {NoAccount} \cup (0..MaxCoin)] :
                              NewEngine(list, accounts, k))
    \/ (~Constructing /\ \E method \in {"Simple", "Scrape"} :
                              \E n \in KeyCounts(method) : CreateSecret(method, n))
    \/ (StepCalls < MaxStepCalls /\ Step({NoAnswers}))
    \/ RegisterClient

SpecPvss == InitPvss /\ [][NextPvss]_vars

(***************************************************************************)
(* The proposer looked up in the schedule of an engine built with any      *)
(* security parameter the spec may carry, zero included.                   *)
(***************************************************************************)

\* securityParameterK is a u64 of the spec, taken as it is (mod.rs:94-109).
SecurityParameters == 0..MaxK

InitProposer ==
    \E k \in SecurityParameters, accounts \in GenesisAccounts, seed \in 0..(NumSeeds - 1) :
        InitEngine(k, 0, accounts, seed)

\* The steps looked up: those of an epoch and the first ones of the next.
LookupSteps == 0..(EpochSlotsPerK * MaxK + 1)

\* Ouroboros::step_proposer(s): the remainder by the length of an empty
\* schedule panics.
StepProposer(s) ==
    /\ last' = [NoResult EXCEPT !.op = "step_proposer",
                                 !.result = IF step_proposer(s) = NoProposer
                                            THEN "panic" ELSE "ok",
                                 !.query = <<s>>,
                                 !.value = <<step_proposer(s)>>]
    /\ UNCHANGED <<timer, pvss_method, pvss_secret, security_parameter_k, step, proposed,
                   pvss_stage, slot_leaders, signer, client, pvss_ledger, phase_log,
                   seals, clock, miner, stake_view, pvss_contract, fts_calls>>

\* Ouroboros::is_step_proposer(s, address).
IsStepProposer(s, address) ==
    /\ last' = [NoResult EXCEPT !.op = "is_step_proposer",
                                 !.result = IF step_proposer(s) = NoProposer
                                            THEN "panic" ELSE "ok",
                                 !.query = <<s, address>>,
                                 !.value = <<is_step_proposer(s, address)>>]
    /\ UNCHANGED <<timer, pvss_method, pvss_secret, security_parameter_k, step, proposed,
                   pvss_stage, slot_leaders, signer, client, pvss_ledger, phase_log,
                   seals, clock, miner, stake_view, pvss_contract, fts_calls>>

NextProposer ==
    \/ \E s \in LookupSteps : StepProposer(s)
    \/ \E s \in LookupSteps, address \in Addresses : IsStepProposer(s, address)

SpecProposer == InitProposer /\ [][NextProposer]_vars

(***************************************************************************)
(* Properties.                                                             *)
(***************************************************************************)

StageSuccessor(stage) ==
    IF stage = "Commit" THEN "CommitBroadcast"
    ELSE IF stage = "CommitBroadcast" THEN "Reveal" ELSE "Commit"

\* C2: the stage changes only in a step() call, and then to its immediate
\* successor in the cycle Commit, CommitBroadcast, Reveal, Commit.
C2_StageCycle ==
    [][pvss_stage' # pvss_stage =>
          last'.op = "step" /\ pvss_stage' = StageSuccessor(pvss_stage)]_vars

\* The log holds a step() call that took the stage from one to the other.
Moved(from, to) ==
    \E i \in 1..(Len(phase_log) - 1) : phase_log[i] = from /\ phase_log[i + 1] = to

C2_Witness ==
    /\ last.op = "step"
    /\ Moved("Commit", "CommitBroadcast")
    /\ Moved("CommitBroadcast", "Reveal")
    /\ Moved("Reveal", "Commit")
    /\ pvss_stage = "CommitBroadcast"

\* C3: with no step() in between, a generate_seal call made after a Regular
\* seal was returned for the current step returns Seal::None, so that at
\* most one Regular seal is returned for the step.
C3_OneSealPerStep ==
    [][(last'.op = "generate_seal" /\ step \in DOMAIN seals)
          => (last'.result = "None" /\ seals' = seals /\ seals[step] = 1)]_vars

C3_Witness ==
    /\ last.op = "generate_seal"
    /\ last.result = "None"
    /\ signer.has_key
    /\ step \in DOMAIN seals

\* C4: under every interleaving of step() on the clock thread with
\* generate_seal on the miner threads, no two Regular seals returned carry
\* the same step.
C4_NoDuplicateSeal == \A t \in DOMAIN seals : seals[t] <= 1

\* Whether the stages of the log contain Commit, then CommitBroadcast, then
\* Reveal.
InOrder(log) ==
    \E a, b, c \in 1..Len(log) :
        /\ a < b /\ b < c
        /\ log[a] = "Commit" /\ log[b] = "CommitBroadcast" /\ log[c] = "Reveal"

FullWindow == Len(phase_log) = epoch_slots + 1

\* C5 as stated: the stages seen over any EpochSlots consecutive step() calls
\* contain Commit, CommitBroadcast, Reveal in that order.
C5_AnyWindowInOrder == FullWindow => InOrder(phase_log)

\* C5, amended: the stages seen over EpochSlots consecutive step() calls that
\* begin in stage Commit contain Commit, CommitBroadcast, Reveal in that order.
C5_CommitWindowInOrder == (FullWindow /\ phase_log[1] = "Commit") => InOrder(phase_log)

C5_Witness ==
    /\ FullWindow
    /\ phase_log[1] = "Commit"
    /\ step = 2 * epoch_slots
    /\ InOrder(phase_log)
    /\ last.op = "step"
    /\ last.result = "ok"

\* C6: generate_seal returns a Regular seal only when the signer's address is
\* the proposer of the step.
C6_ProposerEnforced ==
    (last.op = "generate_seal" /\ last.result = "Regular")
        => signer.address = slot_leaders[(step % Len(slot_leaders)) + 1]

LastHeader == last.header[1]
LastParent == last.parent[1]
LastStep == LastHeader.seal[1].val
FamilyVerified == last.op = "verify_block_family"
StepDecoded(header) == Len(header.seal) >= 1 /\ header.seal[1].tag = "int"
Reported(kind) == last.report = <<[kind |-> kind, who |-> LastHeader.author]>>

\* C7: a block whose seal step exceeds the engine's step + 1 is rejected with
\* the future-step error (BlockError::InvalidSeal) and its author reported
\* benign; a block at the engine's step + 1 is not.
C7_FutureStep ==
    (FamilyVerified /\ StepDecoded(LastHeader)) =>
        /\ LastStep > step + 1 => (last.result = "InvalidSeal" /\ Reported("benign"))
        /\ LastStep <= step + 1 => (last.result # "InvalidSeal" /\ ~Reported("benign"))

C7_Witness ==
    /\ FamilyVerified
    /\ StepDecoded(LastHeader)
    /\ LastStep = step + 1
    /\ last.result = "ok"

BothStepsDecoded == StepDecoded(LastHeader) /\ StepDecoded(LastParent)
ParentStep == LastParent.seal[1].val

\* A seal of a step and a signature of which an address is recovered.
WellFormedSeal(header) ==
    Len(header.seal) = 2 /\ header.seal[1].tag = "int" /\ header.seal[2].tag = "sig"

\* C8 as stated: an accepted block's step is greater than its parent's, and a
\* block (of a well-formed seal) whose step is not is rejected with
\* DoubleVote, its author reported malicious.
C8_DoubleVoteAlways ==
    (FamilyVerified /\ BothStepsDecoded /\ WellFormedSeal(LastHeader)) =>
        /\ last.result = "ok" => LastStep > ParentStep
        /\ LastStep <= ParentStep => (last.result = "DoubleVote" /\ Reported("malicious"))

\* The block passes the checks made before its parent's step is looked at.
PassesEarlierChecks ==
    /\ LastStep <= step + 1
    /\ Len(LastHeader.seal) >= 2
    /\ LastHeader.seal[2] =
           SigField(slot_leaders[(LastStep % Len(slot_leaders)) + 1],
                    bare_hash(LastHeader))
    /\ LastHeader.number # 0

\* C8, amended: an accepted block's step is greater than its parent's; a block
\* whose step is not is never accepted, and when it passes the earlier checks
\* (no future step, the proposer's signature, a number other than 0) it is
\* rejected with DoubleVote and its author reported malicious.
C8_DoubleVote ==
    (FamilyVerified /\ BothStepsDecoded) =>
        /\ last.result = "ok" => LastStep > ParentStep
        /\ LastStep <= ParentStep => last.result # "ok"
        /\ (LastStep <= ParentStep /\ PassesEarlierChecks)
               => (last.result = "DoubleVote" /\ Reported("malicious"))
        /\ Reported("malicious") => last.result = "DoubleVote"

C8_Witness ==
    /\ FamilyVerified
    /\ BothStepsDecoded
    /\ LastStep = ParentStep
    /\ last.result = "DoubleVote"
    /\ Reported("malicious")

\* C9: a block that is not of a future step is accepted only with a signature
\* of its bare hash by schedule[step mod schedule.len()]; with a signature by
\* another address verification fails with NotProposer.
C9_ProposerSignature ==
    (FamilyVerified /\ StepDecoded(LastHeader) /\ LastStep <= step + 1) =>
        LET proposer == slot_leaders[(LastStep % Len(slot_leaders)) + 1]
        IN /\ last.result = "ok" =>
                  (Len(LastHeader.seal) >= 2
                   /\ LastHeader.seal[2] = SigField(proposer, bare_hash(LastHeader)))
           /\ (Len(LastHeader.seal) >= 2 /\ LastHeader.seal[2].tag = "sig"
               /\ LastHeader.seal[2].signer # proposer)
                  => (last.result = "NotProposer"
                      /\ last.mismatch = <<[expected |-> proposer,
                                            found |-> LastHeader.author]>>)

C9_Witness ==
    /\ FamilyVerified
    /\ StepDecoded(LastHeader)
    /\ LastStep <= step + 1
    /\ last.result = "NotProposer"
    /\ LastHeader.seal[2].hash = <<bare_hash(LastHeader)>>
    /\ \E i, j \in 1..Len(slot_leaders) : slot_leaders[i] # slot_leaders[j]

\* C10: verify_block_basic returns Ok exactly for a seal of two fields, and
\* otherwise InvalidSealArity with expected 2 and the length found.
C10_SealArity ==
    last.op = "verify_block_basic" =>
        /\ last.result = "ok" <=> Len(LastHeader.seal) = 2
        /\ last.result = "ok" => last.mismatch = <<>>
        /\ Len(LastHeader.seal) # 2 =>
               /\ last.result = "InvalidSealArity"
               /\ last.mismatch = <<[expected |-> 2, found |-> Len(LastHeader.seal)]>>

C10_Witness ==
    /\ last.op = "verify_block_basic"
    /\ LastHeader.seal = <<>>
    /\ last.result = "InvalidSealArity"

\* The calls made of follow_the_satoshi.
FtsCalls == {fts_calls[i] : i \in 1..Len(fts_calls)}

\* The precondition of follow_the_satoshi: the total is not zero and is the
\* sum of the snapshot's stakes.
FtsPrecondition(c) == c.total_coins # 0 /\ SumCoins(c.balances) = c.total_coins

Returned(c) == c.result.kind = "ok"

\* C11: the engine's schedule has EpochSlots entries, and a call of
\* follow_the_satoshi that meets the precondition returns N stakeholders; a
\* single stakeholder holding all the coins is returned N times.
C11_ScheduleLength ==
    /\ Len(slot_leaders) = epoch_slots
    /\ \A c \in FtsCalls :
           (FtsPrecondition(c) /\ Returned(c)) =>
               /\ Len(c.result.schedule) = c.epoch_slots
               /\ Len(c.balances) = 1 =>
                      c.result.schedule = [i \in 1..c.epoch_slots |-> c.balances[1][1]]

C11_Witness ==
    \E c \in FtsCalls :
        /\ FtsPrecondition(c) /\ Returned(c)
        /\ Len(c.balances) = 1
        /\ c.epoch_slots = EpochSlotsPerK
        /\ Len(c.result.schedule) = EpochSlotsPerK

\* Whether the stakeholder is in the snapshot with coin.
HasStake(balances, id) ==
    \E j \in 1..Len(balances) : balances[j][1] = id /\ balances[j][2] > 0

\* C12: every slot of a schedule returned is assigned to a stakeholder of the
\* snapshot that holds coin; under the precondition every slot 0..N-1 is
\* assigned. The same holds of the engine's schedule and its genesis snapshot.
C12_Coverage ==
    /\ \A i \in 1..Len(slot_leaders) : HasStake(stake_view.snapshot, slot_leaders[i])
    /\ \A c \in FtsCalls :
           Returned(c) =>
               /\ \A i \in 1..Len(c.result.schedule) :
                      HasStake(c.balances, c.result.schedule[i])
               /\ FtsPrecondition(c) => DOMAIN c.result.schedule = 1..c.epoch_slots

C12_Witness ==
    \E c \in FtsCalls :
        /\ FtsPrecondition(c) /\ Returned(c)
        /\ \E j \in 1..Len(c.balances) : c.balances[j][2] = 0
        /\ c.epoch_slots = EpochSlotsPerK
        /\ DOMAIN c.result.schedule = 1..EpochSlotsPerK

\* C13: follow_the_satoshi fails, returning no schedule, when the total is
\* zero and when the sum of the snapshot's stakes is not the total.
C13_InvalidInput ==
    \A c \in FtsCalls : ~FtsPrecondition(c) => ~Returned(c)

\* C14: two calls of follow_the_satoshi with the same seed, snapshot, N and T
\* that meet the precondition and return a schedule return the same schedule.
C14_Deterministic ==
    \A c, d \in FtsCalls :
        (c.seed = d.seed /\ c.balances = d.balances /\ c.epoch_slots = d.epoch_slots
         /\ c.total_coins = d.total_coins /\ FtsPrecondition(c)
         /\ Returned(c) /\ Returned(d))
            => c.result.schedule = d.result.schedule


\* C15: whatever the PVSS transport does (no client registered, client
\* dropped, write refused, read returning nothing), a step() that does not
\* recompute the schedule completes: the counter is incremented, the phase
\* transition is done and the proposed flag is cleared.
C15_StepCompletes ==
    [][(last'.op = "step" /\ step' = fetch_add(step)
        /\ ~(pvss_stage = "Reveal" /\ first_slot_in_new_epoch(step')))
       => (last'.result = "ok" /\ proposed' = FALSE
           /\ pvss_stage' = NextStage(pvss_stage, step'))]_vars


\* C16: a read of the transport returns None, and does not abort, when no
\* provider is registered and when the client is unavailable.
C16_ReadBestEffort ==
    (last.op = "get_commitment" /\ client # "alive") => last.result = "None"

\* The read last done was of a sealed publish.
ReadOfSealed ==
    /\ last.op = "get_commitment"
    /\ last.result = "Some"
    /\ \E t \in pvss_contract.storage : Key(t) = last.query
    /\ \E t \in pvss_contract.passed : Key(t) = last.query

\* C17: a successful read for an (epoch, sender) whose publish succeeded and
\* was sealed returns the commitments and shares passed to the publish.
C17_RoundTrip ==
    ReadOfSealed =>
        \A t \in pvss_contract.passed : Key(t) = last.query => last.value = <<t[3]>>


\* The engine has recomputed its stake view from the ledger.
Recomputed == stake_view.at # NoBlock

\* C18: when the stake view is recomputed at a step s, the balance of every
\* validator is read at block s - 2k, and none at block s.
C18_ReadsAtBack2k ==
    Recomputed =>
        /\ \A v \in Validators :
               <<v, stake_view.at - 2 * security_parameter_k>> \in stake_view.reads
        /\ \A r \in stake_view.reads :
               r[2] = stake_view.at - 2 * security_parameter_k /\ r[2] # stake_view.at

C18_Witness ==
    /\ Recomputed
    /\ last.op = "step" /\ last.result = "ok"
    /\ stake_view.at = step
    /\ stake_view.at = epoch_slots
    /\ Cardinality(stake_view.reads) = NumValidators

\* C19: no stake snapshot the engine builds, from the genesis accounts or
\* from the balances of the ledger, has an entry of zero coin.
C19_NoZeroCoin ==
    \A i \in 1..Len(stake_view.snapshot) : stake_view.snapshot[i][2] > 0

\* C20: the step() that recomputes the stake view replaces the schedule by
\* the result of follow_the_satoshi on the new snapshot, for some seed, and
\* no other step changes the schedule.
C20_ScheduleReplaced ==
    [][/\ (stake_view' # stake_view /\ SumCoins(stake_view'.snapshot) > 0)
          => \E seed \in 0..(NumSeeds - 1) :
                 slot_leaders' = follow_the_satoshi(seed, stake_view'.snapshot,
                                                    epoch_slots,
                                                    SumCoins(stake_view'.snapshot))
       /\ stake_view' = stake_view => slot_leaders' = slot_leaders]_vars


\* The secret creation last done, its method and its number of keys.
SecretCreated == last.op = "PvssSecret::new"
CreatedMethod == last.query[1]
CreatedKeys == last.query[2]

\* C21: with the threshold t = ceil(n / 2), the creation of a Scrape secret
\* succeeds exactly when n >= 3 and t + 2 <= n, the creation of a Simple
\* secret succeeds for every n >= 1, and a creation that does not succeed
\* stops on the assertion of the parameter it violates.
C21_Arity ==
    SecretCreated =>
        LET n == CreatedKeys
            t == (n + 1) \div 2
        IN /\ CreatedMethod = "Scrape" =>
                  (last.result = "ok" <=> (n >= 3 /\ t + 2 <= n))
           /\ CreatedMethod = "Simple" => last.result = "ok"
           /\ last.result = "ok" =>
                  /\ last.value[1].variant = CreatedMethod
                  /\ last.value[1].threshold = t
           /\ last.result # "ok" =>
                  /\ last.result = "panic"
                  /\ last.value[1].message =
                         (IF n < 3 THEN "fewer than 3 participants" ELSE "t + 2 <= n")

C21_Witness ==
    /\ SecretCreated
    /\ CreatedMethod = "Scrape"
    /\ CreatedKeys = 4
    /\ last.result = "ok"
    /\ last.value[1].threshold = 2

\* C23: the variant of the secret the engine holds for its escrow,
\* commitments and shares is the one the pvssMethod option selects.
C23_VariantSelected == pvss_secret.variant = pvss_method

\* The call of follow_the_satoshi the construction last done made.
Constructed == last.op = "Ouroboros::new"
ConstructorCall == last.value[1]
SortedById(balances) ==
    \A i, j \in 1..Len(balances) : i < j => balances[i][1] < balances[j][1]

C24_OneTransitionOnNewStep ==
    [][last'.op = "step" =>
          /\ pvss_stage' \in {pvss_stage, StageSuccessor(pvss_stage)}
          /\ ~(pvss_stage = "Commit" /\ pvss_stage' = "Reveal")
          /\ pvss_stage = "CommitBroadcast" =>
                 ((pvss_stage' # pvss_stage) <=> after_4k_slots(step + 1))
          /\ pvss_stage = "Reveal" =>
                 ((pvss_stage' # pvss_stage) <=> first_slot_in_new_epoch(step + 1))]_vars

\* The stage has just moved to Reveal at the first slot past 4k: in the step
\* before the increment the predicate did not hold.
C24_Witness ==
    /\ last.op = "step"
    /\ pvss_stage = "Reveal"
    /\ Len(phase_log) >= 2
    /\ phase_log[Len(phase_log) - 1] = "CommitBroadcast"
    /\ slot_in_epoch(step) = RevealAfterPerK * security_parameter_k + 1
    /\ ~after_4k_slots(step - 1)

\* C25: a step() call that starts in stage Commit always moves the stage to
\* CommitBroadcast, having published through the transport the engine's own
\* commitments and shares under the epoch number of the new step: what a
\* transaction the transport has sent carries is what the engine passed.
C25_CommitPublishes ==
    [][(last'.op = "step" /\ pvss_stage = "Commit") =>
          /\ pvss_stage' = "CommitBroadcast"
          /\ last'.passed = <<OwnSecret>>
          /\ Len(last'.published) = 1
          /\ last'.published[1].epoch = epoch_number(step')
          /\ last'.published[1].outcome = "ok" =>
                 Commitment(last'.published[1].payload) = last'.passed[1]]_vars

\* C26: a step() call that starts in stage CommitBroadcast moves the stage
\* to Reveal exactly when the slot of the new step is greater than 4k, and
\* the call that moves it has published the engine's revealed secret under
\* the epoch number of the new step.
C26_RevealPublishes ==
    [][(last'.op = "step" /\ pvss_stage = "CommitBroadcast") =>
          /\ (pvss_stage' = "Reveal") <=>
                 (slot_in_epoch(step') > RevealAfterPerK * security_parameter_k)
          /\ pvss_stage' = "Reveal" =>
                 /\ Len(last'.published) = 1
                 /\ last'.published[1].epoch = epoch_number(step')]_vars

\* C27: a step() call that starts in stage Reveal moves the stage to Commit
\* exactly when the new step is the first slot of an epoch (step mod
\* EpochSlots = 0); the call that makes this move recomputes the stake view
\* from the ledger the client gives it, and no other call and no other
\* operation does.
C27_RevealToCommit ==
    [][/\ last'.op = "step" =>
              /\ pvss_stage = "Reveal" =>
                     ((pvss_stage' = "Commit") <=> (step' % epoch_slots = 0))
              /\ (pvss_stage = "Reveal" /\ pvss_stage' = "Commit" /\ client = "alive")
                     => (stake_view' # stake_view /\ stake_view'.at = step')
       /\ stake_view' # stake_view =>
              (last'.op = "step" /\ pvss_stage = "Reveal" /\ pvss_stage' = "Commit")]_vars

C27_Witness ==
    /\ last.op = "step"
    /\ pvss_stage = "Commit"
    /\ Len(phase_log) >= 3
    /\ phase_log[Len(phase_log) - 1] = "Reveal"
    /\ phase_log[Len(phase_log) - 2] = "Reveal"
    /\ step % epoch_slots = 0
    /\ stake_view.at = step

\* C28: step() clears the proposed flag before it notifies the client, so
\* that update_sealing is not invoked while the flag is set by a seal of the
\* previous step, and it notifies only a client that is registered and
\* alive.
C28_NotifyWithFlagClear ==
    [][(clock.pc = "notify" /\ clock' = IdleClock) =>
          /\ last'.notified = (client = "alive")
          /\ (proposed /\ last.op = "generate_seal" /\ last.result = "Regular")
                 => last.seal[1].val = step]_vars

\* C29: the proposer looked up for a step s is schedule[s mod schedule.len()],
\* and the lookup is defined for every s in every state of the engine: the
\* schedule is not empty and the index is within it.
C29_LookupDefined ==
    last.op = "step_proposer" =>
        /\ Len(slot_leaders) > 0
        /\ last.result = "ok"
        /\ last.value = <<slot_leaders[(last.query[1] % Len(slot_leaders)) + 1]>>

\* C30: a generate_seal call made while the signer has no key returns
\* Seal::None, counts no seal and leaves the proposed flag as it was, so
\* unset if it was unset; and a generate_seal call made with the flag unset
\* and the key available returns a Regular seal for the engine's step,
\* whatever calls failed at that step before.
C30_NoKeyNoSeal ==
    [][last'.op = "generate_seal" =>
          /\ ~signer.has_key =>
                 (last'.result = "None" /\ proposed' = proposed /\ seals' = seals)
          /\ (signer.has_key /\ ~proposed) =>
                 (/\ last'.result = "Regular"
                  /\ last'.seal[1] = IntField(step)
                  /\ proposed')]_vars

\* A call has failed for want of a key, at a step reached by step(), and the
\* flag is unset.
C30_Witness ==
    /\ last.op = "generate_seal"
    /\ last.result = "None"
    /\ ~signer.has_key
    /\ signer.address \in Validators
    /\ ~proposed
    /\ StepCalls >= 1
    /\ step \notin DOMAIN seals

\* The cumulative stake of the first j stakeholders, and the sample drawn
\* for slot i (from 0) in a call.
CumStake(balances, j) == SumCoins(SubSeq(balances, 1, j))
SampleOf(c, i) ==
    IndependentSample(from_seed(as_u32_seed(seed_bytes(c.seed), c.read).words), i,
                      c.total_coins)
Holders(balances, r) ==
    {j \in 1..Len(balances) : CumStake(balances, j - 1) <= r /\ r < CumStake(balances, j)}

\* C31: in a schedule returned by a call that meets the precondition, slot i
\* is assigned to the one stakeholder j whose interval of cumulative stake
\* [c_1 + .. + c_(j-1), c_1 + .. + c_j) holds the sample r_i, and the
\* schedule is in the order of the slots, not of the samples.
C31_CumulativeStake ==
    \A c \in FtsCalls :
        (FtsPrecondition(c) /\ Returned(c)) =>
            /\ Len(c.result.schedule) = c.epoch_slots
            /\ \A i \in 1..c.epoch_slots :
                   /\ Cardinality(Holders(c.balances, SampleOf(c, i - 1))) = 1
                   /\ \A j \in Holders(c.balances, SampleOf(c, i - 1)) :
                          c.result.schedule[i] = c.balances[j][1]

\* Two stakeholders with coin, and samples that are not in ascending order:
\* a slot of the second stakeholder comes before a slot of the first.
C31_Witness ==
    \E c \in FtsCalls :
        /\ FtsPrecondition(c) /\ Returned(c)
        /\ Len(c.balances) = 2
        /\ \E i, j \in 1..c.epoch_slots :
               /\ i < j
               /\ SampleOf(c, i - 1) > SampleOf(c, j - 1)
               /\ c.result.schedule[i] = c.balances[2][1]
               /\ c.result.schedule[j] = c.balances[1][1]

\* C32: a verification that fails with NotProposer or with DoubleVote has
\* reported the author of the block, as malicious or as benign, to the
\* validator set.
C32_FailureReported ==
    (FamilyVerified /\ last.result \in {"NotProposer", "DoubleVote"}) =>
        (Reported("malicious") \/ Reported("benign"))

\* A seal of fewer than two fields, or whose first field is no integer, or
\* whose second field is no string of 65 bytes.
MalformedSeal(header) ==
    \/ Len(header.seal) < 2
    \/ header.seal[1].tag # "int"
    \/ header.seal[2].tag \notin {"sig", "badsig"}

\* C33: verify_block_family returns an error, and does not abort, for every
\* header whose seal is malformed.
C33_MalformedSealError ==
    (FamilyVerified /\ MalformedSeal(LastHeader)) => last.result \notin {"ok", "panic"}

(***************************************************************************)
(* The step clock: the timer of the TransitionHandler (mod.rs:335-407).    *)
(***************************************************************************)

\* Ouroboros::remaining_step_duration at wall-clock time now with the step
\* counter at s: before network_wide_start_time the time left until it, after
\* it the time left until the end of slot s, or zero.
remaining_step_duration(now, start, duration, s) ==
    IF start > now THEN start - now
    ELSE LET step_end == (duration * (s + 1)) + start
         IN IF step_end > now THEN step_end - now ELSE 0

\* register_timer_once with remaining_step_duration, at time now.
RegisterTimer(now, start, duration, s) ==
    [armed |-> TRUE, now |-> now, start |-> start, duration |-> duration,
     armed_at |-> now, delay |-> remaining_step_duration(now, start, duration, s)]

\* Ouroboros::new without a start step, TransitionHandler::initialize having
\* run: the step counter is 0 and the timer is registered.  The client, the
\* signer and the ledger are those of a node in service, or none yet.
InitClock ==
    \E accounts \in SoleOrEqualStakes, seed \in 0..(NumSeeds - 1),
       env \in ServiceEnvs \cup {NewEnv},
       now \in 0..MaxStart, start \in 0..MaxStart, duration \in 0..MaxDuration :
        InitEngineTimed(1, 0, accounts, seed, env, "absent",
                        RegisterTimer(now, start, duration, 0))

\* The wall clock advances.
Tick ==
    /\ timer.now < MaxNow
    /\ timer' = [timer EXCEPT !.now = timer.now + 1]
    /\ UNCHANGED <<security_parameter_k, step, proposed, pvss_stage, slot_leaders,
                   signer, client, pvss_ledger, last, phase_log, seals, clock, miner,
                   stake_view, pvss_contract, fts_calls, pvss_method, pvss_secret>>

\* TransitionHandler::timeout: the timer fires no earlier than it was asked to;
\* engine.step() runs and, if it returns, the timer is registered again.
Timeout ==
    /\ timer.armed
    /\ timer.now >= timer.armed_at + timer.delay
    /\ StepEffects({NoAnswers})
    /\ timer' = IF last'.result = "ok"
                THEN RegisterTimer(timer.now, timer.start, timer.duration, step')
                ELSE [timer EXCEPT !.armed = FALSE]

NextClock ==
    \/ Tick
    \/ (StepCalls < MaxStepCalls /\ Timeout)

SpecClock == InitClock /\ [][NextClock]_vars

\* The end of the slot the step counter is in.
next_slot_end == timer.start + (timer.duration * (step + 1))

Rearmed == last.op = "step" /\ timer.armed

\* C34: when the step clock is registered again after a step, its delay is
\* max(next_slot_end - now, 0), which is never negative, and it is at most
\* step_duration when now is at or after network_wide_start_time.
C34_RearmDelay == Rearmed =>
        /\ timer.delay = (IF next_slot_end > timer.armed_at THEN next_slot_end - timer.armed_at ELSE 0)
        /\ timer.delay >= 0
        /\ (timer.armed_at >= timer.start => timer.delay <= timer.duration)

\* C35: once step() has been called, the stage Reveal is held only at a slot
\* of the epoch beyond 4k, and the stage Commit only at slot 0 of an epoch.
C35_PhaseSlot == (security_parameter_k >= 1 /\ StepCalls >= 1) =>
        /\ (pvss_stage = "Reveal" => slot_in_epoch(step) > RevealAfterPerK * security_parameter_k)
        /\ (pvss_stage = "Commit" => slot_in_epoch(step) = 0)

C35_Witness ==
    /\ last.op = "step" /\ last.result = "ok"
    /\ pvss_stage = "Commit" /\ slot_in_epoch(step) = 0
    /\ Moved("CommitBroadcast", "Reveal")
    /\ Moved("Reveal", "Commit")

\* The positions of the log at which a step() call took the stage from Commit
\* to CommitBroadcast, and the step counter that call left: the epoch it
\* published under is the epoch of that step.
CommitBroadcasts ==
    {i \in 2..Len(phase_log) : phase_log[i - 1] = "Commit" /\ phase_log[i] = "CommitBroadcast"}
StepAt(i) == step - (Len(phase_log) - i)
EnteredReveal ==
    /\ last.op = "step"
    /\ Len(phase_log) >= 2
    /\ phase_log[Len(phase_log) - 1] = "CommitBroadcast"
    /\ phase_log[Len(phase_log)] = "Reveal"

\* C36: when a step() call takes the stage from CommitBroadcast to Reveal in
\* epoch e, the most recent call that took it from Commit to CommitBroadcast
\* was made, and so published, in the same epoch e.
C36_CommitBeforeRevealSameEpoch == EnteredReveal =>
        /\ CommitBroadcasts # {}
        /\ \A i \in CommitBroadcasts :
               (\A j \in CommitBroadcasts : j <= i) =>
                   epoch_number(StepAt(i)) = epoch_number(step)

(***************************************************************************)
(* Engines started in the last epoch before the step counter wraps.        *)
(***************************************************************************)

\* Ouroboros::new with a start step (a u64 of the spec, taken as usize) among
\* the last EpochSlots values of the counter.
InitWrap ==
    \E k \in 1..MaxK, accounts \in SoleOrEqualStakes, env \in ServiceEnvs \cup {NewEnv} :
        \E start_step \in (UsizeModulus - EpochSlots(k))..(UsizeModulus - 1) :
            InitEngineIn(k, start_step, accounts, 0, env)

NextWrap ==
    \/ (StepCalls < MaxStepCalls /\ Step({NoAnswers}))
    \/ RegisterClient

SpecWrap == InitWrap /\ [][NextWrap]_vars

\* The last operation was a step() call that invoked compute_new_slot_leaders:
\* it found the stage Reveal and the new step at slot 0 of an epoch.
ComputeInvoked ==
    /\ last.op = "step"
    /\ Len(phase_log) >= 2
    /\ phase_log[Len(phase_log) - 1] = "Reveal"
    /\ first_slot_in_new_epoch(step)

\* C37: compute_new_slot_leaders is invoked only with the step counter at
\* EpochSlots = 10k or more, so that neither step - 2k nor epoch_number - 1
\* is below zero.
C37_ComputeFromSecondEpoch == (security_parameter_k >= 1 /\ ComputeInvoked) =>
        /\ step >= EpochSlotsPerK * security_parameter_k
        /\ step - (SlotSecurityPerK * security_parameter_k) >= 0
        /\ epoch_number(step) - 1 >= 0

(***************************************************************************)
(* The gas limit of a child header: populate_from_parent against the bound *)
(* of verify_block_family, for any parent, floor target and divisor.       *)
(***************************************************************************)

GasPanic == [kind |-> "panic"]
Gas(n) == [kind |-> "gas", gas_limit |-> n]
Min(a, b) == IF a <= b THEN a ELSE b
Max(a, b) == IF a >= b THEN a ELSE b

\* The gas limit populate_from_parent sets (mod.rs:487-495), in U256
\* arithmetic: the division panics on a zero divisor and the subtraction of 1
\* on a zero left operand.
populate_from_parent(gas_limit, gas_floor_target, bound_divisor) ==
    IF bound_divisor = 0 THEN GasPanic
    ELSE IF gas_limit < gas_floor_target
         THEN IF gas_limit + (gas_limit \div bound_divisor) < 1 THEN GasPanic
              ELSE Gas(Min(gas_floor_target, (gas_limit + (gas_limit \div bound_divisor)) - 1))
         ELSE Gas(Max(gas_floor_target, (gas_limit - (gas_limit \div bound_divisor)) + 1))

GasInputs == [parent : 0..MaxGas, floor : 0..MaxGas, divisor : 0..MaxDivisor]

InitGas ==
    \E accounts \in SoleOrEqualStakes : InitEngineIn(1, 0, accounts, 0, NewEnv)

\* Engine::populate_from_parent on a parent of the given gas limit, in an
\* engine of the given gasLimitBoundDivisor.
PopulateFromParent(in) ==
    LET child == populate_from_parent(in.parent, in.floor, in.divisor)
    IN /\ last.op # "populate_from_parent"
       /\ last' = [NoResult EXCEPT !.op = "populate_from_parent",
                                    !.result = IF child = GasPanic THEN "panic" ELSE "ok",
                                    !.query = <<in>>,
                                    !.value = <<child>>]
       /\ UNCHANGED <<timer, pvss_method, pvss_secret,
                      stake_view, pvss_contract, fts_calls,
                      security_parameter_k, step, proposed, pvss_stage, slot_leaders,
                      signer, client, pvss_ledger, phase_log, seals, clock, miner>>

\* The gas limit bound of verify_block_family (mod.rs:583-588) on the child
\* just populated, against the same parent.
VerifyGasLimit ==
    /\ last.op = "populate_from_parent"
    /\ last.result = "ok"
    /\ last' = [last EXCEPT !.op = "gas_limit_bound",
                            !.result = IF GasOutOfBounds(last.value[1].gas_limit,
                                                         last.query[1].parent,
                                                         last.query[1].divisor)
                                       THEN "InvalidGasLimit" ELSE "ok"]
    /\ UNCHANGED <<timer, pvss_method, pvss_secret,
                   stake_view, pvss_contract, fts_calls,
                   security_parameter_k, step, proposed, pvss_stage, slot_leaders,
                   signer, client, pvss_ledger, phase_log, seals, clock, miner>>

NextGas ==
    \/ \E in \in GasInputs : PopulateFromParent(in)
    \/ VerifyGasLimit

SpecGas == InitGas /\ [][NextGas]_vars

\* C38: populate_from_parent never underflows, and the gas limit it sets
\* passes the bound of verify_block_family against the same parent: it lies
\* strictly between parent - parent/divisor and parent + parent/divisor.
C38_ChildGasPasses ==
    /\ last.op = "populate_from_parent" => last.result = "ok"
    /\ last.op = "gas_limit_bound" =>
           /\ last.result = "ok"
           /\ last.value[1].gas_limit >
                  last.query[1].parent - (last.query[1].parent \div last.query[1].divisor)
           /\ last.value[1].gas_limit <
                  last.query[1].parent + (last.query[1].parent \div last.query[1].divisor)

(***************************************************************************)
(* The escrow of the engine, for validator sets and genesis account tables *)
(* of any size: PvssSecret::new of mod.rs.                                 *)
(***************************************************************************)

\* What the genesis state holds for a validator: no account, an account with
\* a PVSS public key, or an account without one.
AccountEntries == {"absent", "keyed", "no_pvss"}
AccountTables(n) == [1..n -> AccountEntries]

\* PvssSecret::new(validator_set, accounts) of mod.rs:162-189 for n
\* validators: the threshold from the number of validators, a public key for
\* each validator that has an account (the expect panics on an account
\* without a key), and a share for each public key.
EnginePvssSecretNew(n, accounts) ==
    IF \E v \in 1..n : accounts[v] = "no_pvss" THEN Panicked("could not find pvss")
    ELSE [kind |-> "ok", variant |-> "Simple", threshold |-> Threshold(n),
          shares |-> Cardinality({v \in 1..n : accounts[v] = "keyed"}),
          message |-> "none"]

EscrowCreated == last.op = "mod::PvssSecret::new"

\* Ouroboros::new for another spec, up to the creation of its secret.
CreateEngineSecret(n, accounts) ==
    /\ ~EscrowCreated
    /\ last' = [NoResult EXCEPT !.op = "mod::PvssSecret::new",
                                 !.result = EnginePvssSecretNew(n, accounts).kind,
                                 !.query = <<n, accounts>>,
                                 !.value = <<EnginePvssSecretNew(n, accounts)>>]
    /\ UNCHANGED <<timer, pvss_method, pvss_secret, security_parameter_k, step, proposed,
                   pvss_stage, slot_leaders, signer, client, pvss_ledger, phase_log,
                   seals, clock, miner, stake_view, pvss_contract, fts_calls>>

NextEscrow == \E n \in 1..MaxKeys : \E accounts \in AccountTables(n) : CreateEngineSecret(n, accounts)

SpecEscrow == InitPvss /\ [][NextEscrow]_vars

\* C39: the threshold of the escrow the engine creates, the half of the
\* number of validators rounded up, is at most the number of encrypted shares
\* created with it, also when some validators have no account (and at least
\* one has).
C39_ThresholdWithinShares ==
    (EscrowCreated /\ last.result = "ok" /\ last.value[1].shares >= 1) =>
        /\ last.value[1].threshold = (last.query[1] + 1) \div 2
        /\ last.value[1].threshold <= last.value[1].shares

(***************************************************************************)
(* What each operation writes: step(), generate_seal and the two           *)
(* verifications on an engine started at any slot of the first epoch.      *)
(***************************************************************************)

NextFrame ==
    \/ (StepCalls < MaxStepCalls /\ Step({NoAnswers}))
    \/ \E header \in Blocks : GenerateSeal(header)
    \/ (~Verified /\ \E header \in AritiesOf(SealFields + 1) : VerifyBlockBasic(header))
    \/ (~Verified /\ \E header \in SealedHeadersOf({step + 1}), parent \in SealedParentsOf({0}) :
                         VerifyBlockFamily(header, parent))

SpecFrame == InitPhase /\ [][NextFrame]_vars

\* C40: the step counter, the stage and the schedule change only in a step()
\* call; the verifications leave them and the proposed flag as they are;
\* generate_seal changes no field of the engine but the proposed flag; and a
\* step() call that does not take the stage from Reveal to Commit leaves the
\* schedule as it is.
C40_Frame ==
    [][/\ (step' # step \/ pvss_stage' # pvss_stage \/ slot_leaders' # slot_leaders)
              => last'.op = "step"
       /\ last'.op \in {"verify_block_basic", "verify_block_family"}
              => UNCHANGED <<step, pvss_stage, slot_leaders, proposed>>
       /\ last'.op = "generate_seal"
              => UNCHANGED <<step, pvss_stage, slot_leaders, security_parameter_k, signer,
                             client, pvss_ledger, pvss_contract, pvss_method, pvss_secret,
                             stake_view, timer>>
       /\ (last'.op = "step" /\ ~(pvss_stage = "Reveal" /\ pvss_stage' = "Commit"))
              => slot_leaders' = slot_leaders]_vars

C40_Witness ==
    /\ last.op = "verify_block_family"
    /\ proposed
    /\ seals # <<>>
    /\ Moved("Reveal", "Commit")
    /\ pvss_stage = "Commit"

====
